---- MODULE Spec2Model ----
(***************************************************************************)
(* ByteBuf: a fixed-length byte region (a DataView over an ArrayBuffer)    *)
(* with a reader index and a writer index.                                 *)
(*                                                                         *)
(* Representation of values:                                               *)
(*   - a storage byte is its raw value 0..255; offsets are 0-based, so the *)
(*     byte at offset i is data[i + 1];                                    *)
(*   - a number is an integer;                                             *)
(*   - a bigint in the int64 range is its four 16-bit limbs                *)
(*     <<l3, l2, l1, l0>>, l3 in -32768..32767 and l2, l1, l0 in 0..65535, *)
(*     standing for l3*2^48 + l2*2^32 + l1*2^16 + l0 (the model checker's  *)
(*     integers are 32 bits wide);                                         *)
(*   - a float32 value is <<sign, biased exponent, fraction>>;             *)
(*   - a string is the sequence of its UTF-16 code units;                  *)
(*   - a Uint8Array is [buffer, byteOffset, length]: a view of `length`    *)
(*     bytes of `buffer` starting at `byteOffset`.                         *)
(***************************************************************************)
EXTENDS Integers, Sequences, FiniteSets, TLC

VARIABLES
    data,          \* ByteBuf.data: the bytes the DataView ranges over
    readerIndex,   \* ByteBuf.readerIndex
    writerIndex,   \* ByteBuf.writerIndex
    input,         \* the byte sequence the caller handed to the constructor
    lastOp,        \* name of the last method called
    arg,           \* its argument
    ret,           \* its return value
    fault,         \* TRUE when the last call threw a RangeError
    lastWrite,     \* the last completed write: [op, pos, val]
    nOps           \* number of method calls so far

vars == <<data, readerIndex, writerIndex, input, lastOp, arg, ret, fault,
          lastWrite, nOps>>

(***************************************************************************)
(* Bounds of the model.                                                    *)
(***************************************************************************)
MaxLen == 10    \* size of the buffer emptyBuffer allocates
MaxOps == 3     \* method calls per behaviour of Spec
MaxRoundTripOps == 4   \* method calls per behaviour of the round-trip specifications
MaxCursor == 2147483000   \* calls are made while both indices are within
                          \* -MaxCursor..MaxCursor (32-bit model integers)

NoVal == "none"

(***************************************************************************)
(* DataView accessors (big-endian: the littleEndian argument is omitted).  *)
(***************************************************************************)

\* A DataView access of w bytes at byte offset idx throws a RangeError
\* unless the span lies inside the buffer.
InBounds(d, idx, w) == idx >= 0 /\ idx + w <= Len(d)

ToInt8(b) == IF b >= 128 THEN b - 256 ELSE b

PutBytes(d, idx, bs) ==
    [i \in 1..Len(d) |->
        IF i > idx /\ i <= idx + Len(bs) THEN bs[i - idx] ELSE d[i]]

getInt8(d, idx) == ToInt8(d[idx + 1])

getUint8(d, idx) == d[idx + 1]

getInt16LE(d, idx) == ToInt8(d[idx + 2]) * 256 + d[idx + 1]

getInt16(d, idx) == ToInt8(d[idx + 1]) * 256 + d[idx + 2]

getInt32(d, idx) ==
    ToInt8(d[idx + 1]) * 16777216 + d[idx + 2] * 65536
        + d[idx + 3] * 256 + d[idx + 4]

getBigInt64(d, idx) ==
    << ToInt8(d[idx + 1]) * 256 + d[idx + 2],
       d[idx + 3] * 256 + d[idx + 4],
       d[idx + 5] * 256 + d[idx + 6],
       d[idx + 7] * 256 + d[idx + 8] >>

getFloat32(d, idx) ==
    << d[idx + 1] \div 128,
       (d[idx + 1] % 128) * 2 + d[idx + 2] \div 128,
       (d[idx + 2] % 128) * 65536 + d[idx + 3] * 256 + d[idx + 4] >>

setInt8(d, idx, v) == PutBytes(d, idx, << v % 256 >>)

setInt16(d, idx, v) == PutBytes(d, idx, << (v \div 256) % 256, v % 256 >>)

setInt32LE(d, idx, v) ==
    PutBytes(d, idx, << v % 256, (v \div 256) % 256,
                        (v \div 65536) % 256, (v \div 16777216) % 256 >>)

setInt32(d, idx, v) ==
    PutBytes(d, idx, << (v \div 16777216) % 256, (v \div 65536) % 256,
                        (v \div 256) % 256, v % 256 >>)

setBigInt64(d, idx, l) ==
    PutBytes(d, idx, << (l[1] \div 256) % 256, l[1] % 256,
                        (l[2] \div 256) % 256, l[2] % 256,
                        (l[3] \div 256) % 256, l[3] % 256,
                        (l[4] \div 256) % 256, l[4] % 256 >>)

setFloat32(d, idx, f) ==
    PutBytes(d, idx, << f[1] * 128 + f[2] \div 2,
                        (f[2] % 2) * 128 + f[3] \div 65536,
                        (f[3] \div 256) % 256,
                        f[3] % 256 >>)

(***************************************************************************)
(* Inputs.                                                                 *)
(***************************************************************************)
Bools == {TRUE, FALSE}
SignedBytes == {-128, -1, 2, 127}
UnsignedBytes == {0, 127, 128, 255}
Shorts == {-32768, -2, 258, 32767}
Ints == {-2147483647 - 1, -1, 1000, 2147483647}
Longs == { <<-32768, 0, 0, 0>>, <<-1, 65535, 65535, 65535>>,
           <<258, 772, 1286, 1800>>, <<32767, 65535, 65535, 65535>> }
Floats == { <<0, 0, 0>>, <<1, 128, 2097152>>, <<0, 124, 2097152>> }
Strings == { <<>>, <<65, 66>>, <<0, 255>>, <<200>> }
Positions == {-1, 0, 2, MaxLen - 5, MaxLen - 1}
Skips == {-3, 1, 4}
RoundTripPositions == {0, 2}
UnsignedSamples == {v \in 0..255 : v % 32 = 0} \cup {1, 127, 128, 129, 254, 255}

FullView(b) == [buffer |-> b, byteOffset |-> 0, length |-> Len(b)]

Uint8Arrays ==
    { FullView(<<255, 255, 255, 240, 1, 2, 128, 0>>),
      [buffer |-> <<1, 2, 3, 4>>, byteOffset |-> 1, length |-> 2] }

ArrayBuffers == { <<0, 0, 0, 2, 65, 66>> }

\* The bytes a Uint8Array shows to its user.
ViewBytes(u) == SubSeq(u.buffer, u.byteOffset + 1, u.byteOffset + u.length)

Zeros(n) == [i \in 1..n |-> 0]

(***************************************************************************)
(* Construction.                                                           *)
(***************************************************************************)
constructor(u) ==
    /\ data = u.buffer
    /\ input = ViewBytes(u)
    /\ readerIndex = 0
    /\ writerIndex = 0
    /\ lastOp = "constructor"
    /\ arg = NoVal
    /\ ret = NoVal
    /\ fault = FALSE
    /\ lastWrite = [op |-> NoVal, pos |-> 0, val |-> NoVal]
    /\ nOps = 0

emptyBuffer(size) == constructor(FullView(Zeros(size)))

from_uint8(buffer) == constructor(buffer)

from(buffer) == constructor(FullView(buffer))

Init ==
    \/ emptyBuffer(MaxLen)
    \/ \E u \in Uint8Arrays : from_uint8(u)
    \/ \E b \in ArrayBuffers : from(b)

(***************************************************************************)
(* Bookkeeping shared by every method call.                                *)
(***************************************************************************)
Call(op, a) ==
    /\ readerIndex \in -MaxCursor..MaxCursor
    /\ writerIndex \in -MaxCursor..MaxCursor
    /\ nOps' = nOps + 1
    /\ lastOp' = op
    /\ arg' = a
    /\ UNCHANGED input

\* The outcome of a read: its value, or a RangeError.
Returned(ok, v) ==
    /\ fault' = ~ok
    /\ ret' = IF ok THEN v ELSE NoVal

\* The outcome of a fixed-width write: done, or a RangeError.
Wrote(ok, op, pos, v) ==
    /\ fault' = ~ok
    /\ ret' = NoVal
    /\ lastWrite' = IF ok THEN [op |-> op, pos |-> pos, val |-> v]
                          ELSE lastWrite

(***************************************************************************)
(* Read operations: the index is advanced first, then the DataView is      *)
(* read at the old index.                                                  *)
(***************************************************************************)
readBoolNonZero ==
    /\ Call("readBool", NoVal)
    /\ readerIndex' = readerIndex + 1
    /\ Returned(InBounds(data, readerIndex' - 1, 1),
                getInt8(data, readerIndex' - 1) # 0)
    /\ UNCHANGED <<data, writerIndex, lastWrite>>

readBool ==
    /\ Call("readBool", NoVal)
    /\ readerIndex' = readerIndex + 1
    /\ Returned(InBounds(data, readerIndex' - 1, 1),
                getInt8(data, readerIndex' - 1) = 1)
    /\ UNCHANGED <<data, writerIndex, lastWrite>>

readByteSigned ==
    /\ Call("readByteSigned", NoVal)
    /\ readerIndex' = readerIndex + 1
    /\ Returned(InBounds(data, readerIndex' - 1, 1),
                getInt8(data, readerIndex' - 1))
    /\ UNCHANGED <<data, writerIndex, lastWrite>>

readByteUnsigned ==
    /\ Call("readByteUnsigned", NoVal)
    /\ readerIndex' = readerIndex + 1
    /\ Returned(InBounds(data, readerIndex' - 1, 1),
                getInt8(data, readerIndex' - 1) + 128)
    /\ UNCHANGED <<data, writerIndex, lastWrite>>

readShortBy4 ==
    /\ Call("readShort", NoVal)
    /\ readerIndex' = readerIndex + 4
    /\ Returned(InBounds(data, readerIndex' - 4, 2),
                getInt16(data, readerIndex' - 4))
    /\ UNCHANGED <<data, writerIndex, lastWrite>>

readShort ==
    /\ Call("readShort", NoVal)
    /\ readerIndex' = readerIndex + 2
    /\ Returned(InBounds(data, readerIndex' - 2, 2),
                getInt16(data, readerIndex' - 2))
    /\ UNCHANGED <<data, writerIndex, lastWrite>>

readFloat ==
    /\ Call("readFloat", NoVal)
    /\ readerIndex' = readerIndex + 4
    /\ Returned(InBounds(data, readerIndex' - 4, 4),
                getFloat32(data, readerIndex' - 4))
    /\ UNCHANGED <<data, writerIndex, lastWrite>>

readInt ==
    /\ Call("readInt", NoVal)
    /\ readerIndex' = readerIndex + 4
    /\ Returned(InBounds(data, readerIndex' - 4, 4),
                getInt32(data, readerIndex' - 4))
    /\ UNCHANGED <<data, writerIndex, lastWrite>>

readLong ==
    /\ Call("readLong", NoVal)
    /\ readerIndex' = readerIndex + 8
    /\ Returned(InBounds(data, readerIndex' - 8, 8),
                getBigInt64(data, readerIndex' - 8))
    /\ UNCHANGED <<data, writerIndex, lastWrite>>

\* The loop of readByteString from iteration i on: the string read, or a
\* RangeError when a character lies outside the buffer.
RECURSIVE ReadCharsSigned(_, _, _, _, _)
ReadCharsSigned(d, r, n, i, s) ==
    IF i >= n THEN [s |-> s, ok |-> TRUE]
    ELSE IF ~InBounds(d, r + i, 1) THEN [s |-> s, ok |-> FALSE]
    ELSE ReadCharsSigned(d, r, n, i + 1, Append(s, getInt8(d, r + i)))

RECURSIVE ReadChars(_, _, _, _, _)
ReadChars(d, r, n, i, s) ==
    IF i >= n THEN [s |-> s, ok |-> TRUE]
    ELSE IF ~InBounds(d, r + i, 1) THEN [s |-> s, ok |-> FALSE]
    ELSE ReadChars(d, r, n, i + 1, Append(s, getUint8(d, r + i)))

readByteStringSigned ==
    /\ Call("readByteString", NoVal)
    /\ IF ~InBounds(data, readerIndex, 4)
       THEN /\ readerIndex' = readerIndex + 4
            /\ Returned(FALSE, NoVal)
       ELSE LET n == getInt32(data, readerIndex)
                r == readerIndex + 4
                chars == ReadCharsSigned(data, r, n, 0, <<>>)
            IN  /\ readerIndex' = IF chars.ok THEN r + n ELSE r
                /\ Returned(chars.ok, chars.s)
    /\ UNCHANGED <<data, writerIndex, lastWrite>>

readByteString ==
    /\ Call("readByteString", NoVal)
    /\ IF ~InBounds(data, readerIndex, 4)
       THEN /\ readerIndex' = readerIndex + 4
            /\ Returned(FALSE, NoVal)
       ELSE LET n == getInt32(data, readerIndex)
                r == readerIndex + 4
                chars == ReadChars(data, r, n, 0, <<>>)
            IN  /\ readerIndex' = IF chars.ok THEN r + n ELSE r
                /\ Returned(chars.ok, chars.s)
    /\ UNCHANGED <<data, writerIndex, lastWrite>>

(***************************************************************************)
(* Write operations: the DataView is written at the index, then the index  *)
(* is advanced.                                                            *)
(***************************************************************************)
writeBool(b) ==
    /\ Call("writeBool", b)
    /\ LET ok == InBounds(data, writerIndex, 1)
       IN  /\ data' = IF ok THEN setInt8(data, writerIndex, IF b THEN 1 ELSE 0)
                            ELSE data
           /\ writerIndex' = IF ok THEN writerIndex + 1 ELSE writerIndex
           /\ Wrote(ok, "writeBool", writerIndex, b)
    /\ UNCHANGED readerIndex

writeByteSignedBack(b) ==
    /\ Call("writeByteSigned", b)
    /\ LET ok == InBounds(data, writerIndex, 1)
       IN  /\ data' = IF ok THEN setInt8(data, writerIndex, b) ELSE data
           /\ writerIndex' = IF ok THEN writerIndex - 1 ELSE writerIndex
           /\ Wrote(ok, "writeByteSigned", writerIndex, b)
    /\ UNCHANGED readerIndex

writeByteSigned(b) ==
    /\ Call("writeByteSigned", b)
    /\ LET ok == InBounds(data, writerIndex, 1)
       IN  /\ data' = IF ok THEN setInt8(data, writerIndex, b) ELSE data
           /\ writerIndex' = IF ok THEN writerIndex + 1 ELSE writerIndex
           /\ Wrote(ok, "writeByteSigned", writerIndex, b)
    /\ UNCHANGED readerIndex

writeByteUnsignedNoShift(b) ==
    /\ Call("writeByteUnsigned", b)
    /\ LET ok == InBounds(data, writerIndex, 1)
       IN  /\ data' = IF ok THEN setInt8(data, writerIndex, b) ELSE data
           /\ writerIndex' = IF ok THEN writerIndex + 1 ELSE writerIndex
           /\ Wrote(ok, "writeByteUnsigned", writerIndex, b)
    /\ UNCHANGED readerIndex

writeByteUnsigned(b) ==
    /\ Call("writeByteUnsigned", b)
    /\ LET ok == InBounds(data, writerIndex, 1)
       IN  /\ data' = IF ok THEN setInt8(data, writerIndex, b - 128) ELSE data
           /\ writerIndex' = IF ok THEN writerIndex + 1 ELSE writerIndex
           /\ Wrote(ok, "writeByteUnsigned", writerIndex, b)
    /\ UNCHANGED readerIndex

writeShort(s) ==
    /\ Call("writeShort", s)
    /\ LET ok == InBounds(data, writerIndex, 2)
       IN  /\ data' = IF ok THEN setInt16(data, writerIndex, s) ELSE data
           /\ writerIndex' = IF ok THEN writerIndex + 2 ELSE writerIndex
           /\ Wrote(ok, "writeShort", writerIndex, s)
    /\ UNCHANGED readerIndex

writeFloat(f) ==
    /\ Call("writeFloat", f)
    /\ LET ok == InBounds(data, writerIndex, 4)
       IN  /\ data' = IF ok THEN setFloat32(data, writerIndex, f) ELSE data
           /\ writerIndex' = IF ok THEN writerIndex + 4 ELSE writerIndex
           /\ Wrote(ok, "writeFloat", writerIndex, f)
    /\ UNCHANGED readerIndex

writeIntAdvanceFirst(i) ==
    /\ Call("writeInt", i)
    /\ LET ok == InBounds(data, writerIndex, 4)
       IN  /\ data' = IF ok THEN setInt32(data, writerIndex, i) ELSE data
           /\ writerIndex' = writerIndex + 4
           /\ Wrote(ok, "writeInt", writerIndex, i)
    /\ UNCHANGED readerIndex

writeInt(i) ==
    /\ Call("writeInt", i)
    /\ LET ok == InBounds(data, writerIndex, 4)
       IN  /\ data' = IF ok THEN setInt32(data, writerIndex, i) ELSE data
           /\ writerIndex' = IF ok THEN writerIndex + 4 ELSE writerIndex
           /\ Wrote(ok, "writeInt", writerIndex, i)
    /\ UNCHANGED readerIndex

writeLong(l) ==
    /\ Call("writeLong", l)
    /\ LET ok == InBounds(data, writerIndex, 8)
       IN  /\ data' = IF ok THEN setBigInt64(data, writerIndex, l) ELSE data
           /\ writerIndex' = IF ok THEN writerIndex + 8 ELSE writerIndex
           /\ Wrote(ok, "writeLong", writerIndex, l)
    /\ UNCHANGED readerIndex

\* The loop of writeByteString over the characters s still to write: one
\* writeByteSigned per character, stopping at the first RangeError.
RECURSIVE WriteChars(_, _, _)
WriteChars(d, w, s) ==
    IF s = <<>> THEN [data |-> d, writerIndex |-> w, ok |-> TRUE]
    ELSE IF ~InBounds(d, w, 1) THEN [data |-> d, writerIndex |-> w, ok |-> FALSE]
    ELSE WriteChars(setInt8(d, w, Head(s)), w + 1, Tail(s))

writeByteString(s) ==
    /\ Call("writeByteString", s)
    /\ IF ~InBounds(data, writerIndex, 4)
       THEN /\ UNCHANGED <<data, writerIndex, lastWrite>>
            /\ fault' = TRUE
       ELSE LET w == WriteChars(setInt32(data, writerIndex, Len(s)),
                                writerIndex + 4, s)
            IN  /\ data' = w.data
                /\ writerIndex' = w.writerIndex
                /\ fault' = ~w.ok
                /\ lastWrite' =
                       IF w.ok
                       THEN [op |-> "writeByteString", pos |-> writerIndex, val |-> s]
                       ELSE [op |-> NoVal, pos |-> 0, val |-> NoVal]
    /\ ret' = NoVal
    /\ UNCHANGED readerIndex

(***************************************************************************)
(* Cursor and extraction operations.                                       *)
(***************************************************************************)
getReaderIndex == readerIndex

getWriterIndex == writerIndex

Cursor(op, a) ==
    /\ Call(op, a)
    /\ fault' = FALSE
    /\ ret' = NoVal
    /\ UNCHANGED <<data, lastWrite>>

setReaderIndex(i) ==
    /\ Cursor("setReaderIndex", i)
    /\ readerIndex' = i
    /\ UNCHANGED writerIndex

setWriterIndex(i) ==
    /\ Cursor("setWriterIndex", i)
    /\ writerIndex' = i
    /\ UNCHANGED readerIndex

skipReaderWrongIndex(s) ==
    /\ Cursor("skipReader", s)
    /\ writerIndex' = writerIndex + s
    /\ UNCHANGED readerIndex

skipReader(s) ==
    /\ Cursor("skipReader", s)
    /\ readerIndex' = readerIndex + s
    /\ UNCHANGED writerIndex

skipWriter(s) ==
    /\ Cursor("skipWriter", s)
    /\ writerIndex' = writerIndex + s
    /\ UNCHANGED readerIndex

bytes ==
    /\ Call("bytes", NoVal)
    /\ fault' = FALSE
    /\ ret' = data
    /\ UNCHANGED <<data, readerIndex, writerIndex, lastWrite>>

(***************************************************************************)
(* The buffer under any sequence of calls.                                 *)
(***************************************************************************)
Next ==
    /\ nOps < MaxOps
    /\ \/ readBool
       \/ readByteSigned
       \/ readByteUnsigned
       \/ readShort
       \/ readFloat
       \/ readInt
       \/ readLong
       \/ readByteString
       \/ \E b \in Bools : writeBool(b)
       \/ \E b \in SignedBytes : writeByteSigned(b)
       \/ \E b \in UnsignedBytes : writeByteUnsigned(b)
       \/ \E s \in Shorts : writeShort(s)
       \/ \E f \in Floats : writeFloat(f)
       \/ \E i \in Ints : writeInt(i)
       \/ \E l \in Longs : writeLong(l)
       \/ \E s \in Strings : writeByteString(s)
       \/ \E i \in Positions : setReaderIndex(i)
       \/ \E i \in Positions : setWriterIndex(i)
       \/ \E s \in Skips : skipReader(s)
       \/ \E s \in Skips : skipWriter(s)
       \/ bytes

Spec == Init /\ [][Next]_vars

(***************************************************************************)
(* Write at a position, then read at a position: the integer and boolean   *)
(* operations, the unsigned byte, and the string, each with the two        *)
(* index setters.                                                          *)
(***************************************************************************)
SetIndex ==
    \/ \E i \in RoundTripPositions : setReaderIndex(i)
    \/ \E i \in RoundTripPositions : setWriterIndex(i)

NextIntegers ==
    /\ nOps < MaxRoundTripOps
    /\ \/ SetIndex
       \/ readBool
       \/ readByteSigned
       \/ readShort
       \/ readInt
       \/ readLong
       \/ \E b \in Bools : writeBool(b)
       \/ \E b \in SignedBytes : writeByteSigned(b)
       \/ \E s \in Shorts : writeShort(s)
       \/ \E i \in Ints : writeInt(i)
       \/ \E l \in Longs : writeLong(l)

SpecIntegers == Init /\ [][NextIntegers]_vars

NextUnsigned ==
    /\ nOps < MaxRoundTripOps
    /\ \/ SetIndex
       \/ readByteUnsigned
       \/ readByteSigned
       \/ \E b \in UnsignedSamples : writeByteUnsigned(b)

SpecUnsigned == Init /\ [][NextUnsigned]_vars

NextStrings ==
    /\ nOps < MaxRoundTripOps
    /\ \/ SetIndex
       \/ readByteString
       \/ \E s \in Strings : writeByteString(s)

SpecStrings == Init /\ [][NextStrings]_vars

(***************************************************************************)
(* Vocabulary of the properties.                                           *)
(***************************************************************************)
FixedReads == {"readBool", "readByteSigned", "readByteUnsigned", "readShort",
               "readFloat", "readInt", "readLong"}
FixedWrites == {"writeBool", "writeByteSigned", "writeByteUnsigned",
                "writeShort", "writeFloat", "writeInt", "writeLong"}
IntegerReads == {"readBool", "readByteSigned", "readShort", "readInt", "readLong"}
IntegerWrites == {"writeBool", "writeByteSigned", "writeShort", "writeInt",
                  "writeLong"}
ReadSide == FixedReads \cup {"readByteString", "setReaderIndex", "skipReader"}
WriteSide == FixedWrites \cup {"writeByteString", "setWriterIndex", "skipWriter"}

\* Byte width of the type a fixed-width operation reads or writes.
Width(op) ==
    CASE op \in {"readBool", "readByteSigned", "readByteUnsigned",
                 "writeBool", "writeByteSigned", "writeByteUnsigned"} -> 1
      [] op \in {"readShort", "writeShort"} -> 2
      [] op \in {"readFloat", "readInt", "writeFloat", "writeInt"} -> 4
      [] op \in {"readLong", "writeLong"} -> 8

\* The write a read is paired with.
WriteOf(op) ==
    CASE op = "readBool" -> "writeBool"
      [] op = "readByteSigned" -> "writeByteSigned"
      [] op = "readByteUnsigned" -> "writeByteUnsigned"
      [] op = "readShort" -> "writeShort"
      [] op = "readInt" -> "writeInt"
      [] op = "readLong" -> "writeLong"

\* A step that is a method call (not a stuttering step).
IsCall == nOps' = nOps + 1

\* The value of a byte sequence read most significant byte first.
RECURSIVE UnsignedBE(_)
UnsignedBE(bs) ==
    IF bs = <<>> THEN 0
    ELSE UnsignedBE(SubSeq(bs, 1, Len(bs) - 1)) * 256 + bs[Len(bs)]

RECURSIVE Pow256(_)
Pow256(n) == IF n = 0 THEN 1 ELSE 256 * Pow256(n - 1)

\* ... as a two's-complement number of up to four bytes.
SignedBE(bs) ==
    (IF bs[1] >= 128 THEN bs[1] - 256 ELSE bs[1]) * Pow256(Len(bs) - 1)
        + UnsignedBE(Tail(bs))

\* The integer value a K-byte big-endian two's-complement field holds, in the
\* representation of the written argument.
FieldValue(op, bs) ==
    CASE op = "writeBool" -> (SignedBE(bs) = 1)
      [] op = "writeLong" ->
            << SignedBE(SubSeq(bs, 1, 2)), UnsignedBE(SubSeq(bs, 3, 4)),
               UnsignedBE(SubSeq(bs, 5, 6)), UnsignedBE(SubSeq(bs, 7, 8)) >>
      [] OTHER -> SignedBE(bs)

(***************************************************************************)
(* C1: an in-range boolean, int8, int16, int32 or int64 written at         *)
(* position P (P + width inside the storage) and then read back at P with  *)
(* the paired read, no other write in between, is returned unchanged.      *)
(***************************************************************************)
RoundTripIntegers ==
    ( /\ lastOp \in IntegerReads
      /\ ~fault
      /\ lastWrite.op = WriteOf(lastOp)
      /\ lastWrite.pos = readerIndex - Width(lastOp) )
    => ret = lastWrite.val

RoundTripIntegersWitness ==
    /\ lastOp = "readLong"
    /\ ~fault
    /\ lastWrite = [op |-> "writeLong", pos |-> 2,
                    val |-> <<-1, 65535, 65535, 65535>>]
    /\ readerIndex = 10
    /\ ret = <<-1, 65535, 65535, 65535>>

(***************************************************************************)
(* C2: writeByteUnsigned(v) at P then readByteUnsigned() at P returns v,   *)
(* and the byte stored at P is v - 128 as a two's-complement signed byte.  *)
(***************************************************************************)
RoundTripUnsigned ==
    /\ ( /\ lastOp = "readByteUnsigned"
         /\ ~fault
         /\ lastWrite.op = "writeByteUnsigned"
         /\ lastWrite.pos = readerIndex - 1 )
       => ret = lastWrite.val
    /\ (lastOp = "writeByteUnsigned" /\ ~fault)
       => SignedBE(<< data[writerIndex] >>) = arg - 128

RoundTripUnsignedWitness ==
    /\ lastOp = "readByteUnsigned"
    /\ ~fault
    /\ lastWrite = [op |-> "writeByteUnsigned", pos |-> 2, val |-> 255]
    /\ readerIndex = 3
    /\ data[3] = 127
    /\ ret = 255

(***************************************************************************)
(* C3: a string of codepoints 0..255 written at P and read back at P is    *)
(* returned unchanged; the write advances writerIndex by 4 + length and    *)
(* the read advances readerIndex by 4 + length; "AB" is stored as          *)
(* 0,0,0,2,65,66.                                                          *)
(***************************************************************************)
RoundTripStrings ==
    [][ /\ ( /\ lastOp' = "readByteString"
             /\ IsCall
             /\ ~fault'
             /\ lastWrite.op = "writeByteString"
             /\ lastWrite.pos = readerIndex )
           => /\ ret' = lastWrite.val
              /\ readerIndex' = readerIndex + 4 + Len(lastWrite.val)
        /\ (lastOp' = "writeByteString" /\ IsCall /\ ~fault')
           => /\ writerIndex' = writerIndex + 4 + Len(arg')
              /\ arg' = <<65, 66>>
                 => SubSeq(data', writerIndex + 1, writerIndex + 6)
                        = <<0, 0, 0, 2, 65, 66>>
      ]_vars

RoundTripStringsWitness ==
    /\ lastOp = "readByteString"
    /\ ~fault
    /\ lastWrite = [op |-> "writeByteString", pos |-> 2, val |-> <<0, 255>>]
    /\ SubSeq(data, 3, 8) = <<0, 0, 0, 2, 0, 255>>
    /\ ret = <<0, 255>>
    /\ readerIndex = 8
    /\ writerIndex = 8

(***************************************************************************)
(* C4: no write-side operation changes readerIndex and no read-side        *)
(* operation changes writerIndex, whether or not the call faults.          *)
(***************************************************************************)
IndependentCursors ==
    [][ /\ (IsCall /\ lastOp' \in WriteSide) => readerIndex' = readerIndex
        /\ (IsCall /\ lastOp' \in ReadSide) => writerIndex' = writerIndex
      ]_vars

IndependentCursorsWitness ==
    /\ lastOp = "skipReader"
    /\ arg = 4
    /\ readerIndex = 4
    /\ writerIndex = 8
    /\ lastWrite.op = "writeLong"

(***************************************************************************)
(* C5: a completed read or write of a K-byte type advances its cursor by   *)
(* exactly K; skipReader(n) and skipWriter(n) move theirs by exactly n,    *)
(* negative n included.                                                    *)
(***************************************************************************)
CursorAdvancement ==
    [][ /\ (IsCall /\ lastOp' \in FixedReads /\ ~fault')
           => readerIndex' = readerIndex + Width(lastOp')
        /\ (IsCall /\ lastOp' \in FixedWrites /\ ~fault')
           => writerIndex' = writerIndex + Width(lastOp')
        /\ (IsCall /\ lastOp' = "skipReader")
           => readerIndex' = readerIndex + arg'
        /\ (IsCall /\ lastOp' = "skipWriter")
           => writerIndex' = writerIndex + arg'
      ]_vars

CursorAdvancementWitness ==
    /\ lastOp = "skipReader"
    /\ arg = -3
    /\ readerIndex = -1
    /\ ret = NoVal
    /\ lastWrite.op = "writeShort"
    /\ writerIndex = 2
    /\ nOps = 3

(***************************************************************************)
(* C6 as claimed: both cursors are non-negative in every reachable state.  *)
(***************************************************************************)
CursorsNonNegative == readerIndex >= 0 /\ writerIndex >= 0

(***************************************************************************)
(* C6 as amended: a non-negative cursor becomes negative only by           *)
(* setReaderIndex / setWriterIndex with a negative index, skipReader /     *)
(* skipWriter with a negative amount, or (readerIndex) readByteString      *)
(* decoding a negative length prefix.                                      *)
(***************************************************************************)
CursorsNegativeOnlyByCaller ==
    [][ /\ (readerIndex >= 0 /\ readerIndex' < 0)
           => \/ lastOp' \in {"setReaderIndex", "skipReader"} /\ arg' < 0
              \/ /\ lastOp' = "readByteString"
                 /\ readerIndex + 4 <= Len(data)
                 /\ SignedBE(SubSeq(data, readerIndex + 1, readerIndex + 4)) < 0
        /\ (writerIndex >= 0 /\ writerIndex' < 0)
           => lastOp' \in {"setWriterIndex", "skipWriter"} /\ arg' < 0
      ]_vars

CursorsNegativeWitness ==
    /\ nOps = 1
    /\ lastOp = "readByteString"
    /\ ~fault
    /\ ret = <<>>
    /\ readerIndex = -12

(***************************************************************************)
(* C7 as claimed: a freshly constructed buffer holds exactly the bytes of  *)
(* the sequence it was given, with both cursors 0.                         *)
(***************************************************************************)
ConstructedFromInput ==
    nOps = 0 => data = input /\ readerIndex = 0 /\ writerIndex = 0

(***************************************************************************)
(* C8: a completed write of a K-byte integer at writerIndex P leaves the   *)
(* storage length and every byte outside P..P+K-1 unchanged and makes      *)
(* bytes P..P+K-1 the big-endian two's-complement encoding of the value;   *)
(* reads and cursor operations leave the storage alone, and bytes()        *)
(* returns the whole storage.                                              *)
(***************************************************************************)
WritesInPlaceBigEndian ==
    [][ /\ (IsCall /\ lastOp' \in IntegerWrites /\ ~fault')
           => /\ Len(data') = Len(data)
              /\ \A i \in 1..Len(data) :
                    (i <= writerIndex \/ i > writerIndex + Width(lastOp'))
                        => data'[i] = data[i]
              /\ FieldValue(lastOp', SubSeq(data', writerIndex + 1,
                                            writerIndex + Width(lastOp')))
                    = arg'
        /\ (IsCall /\ lastOp' \in ReadSide \cup {"setWriterIndex", "skipWriter", "bytes"})
           => data' = data
        /\ (IsCall /\ lastOp' = "bytes") => ret' = data
      ]_vars

WritesInPlaceWitness ==
    /\ lastOp = "bytes"
    /\ lastWrite = [op |-> "writeInt", pos |-> 2, val |-> 1000]
    /\ Len(ret) = MaxLen
    /\ SubSeq(ret, 1, 6) = <<0, 0, 0, 0, 3, 232>>
    /\ writerIndex = 6

(***************************************************************************)
(* C9: readBool returns true exactly when the byte at the read cursor is   *)
(* 1, and writeBool stores 1 for true and 0 for false.                     *)
(***************************************************************************)
BoolIsByteOne ==
    /\ (lastOp = "readBool" /\ ~fault) => (ret <=> data[readerIndex] = 1)
    /\ (lastOp = "writeBool" /\ ~fault)
       => data[writerIndex] = (IF arg THEN 1 ELSE 0)

BoolIsByteOneWitness ==
    /\ lastOp = "readBool"
    /\ ~fault
    /\ data[readerIndex] = 255
    /\ ret = FALSE

(***************************************************************************)
(* C10 as claimed: a call that faults leaves storage and both cursors as   *)
(* they were.                                                              *)
(***************************************************************************)
FaultLeavesBufferUnchanged ==
    [][ (IsCall /\ fault')
            => /\ data' = data
               /\ readerIndex' = readerIndex
               /\ writerIndex' = writerIndex
      ]_vars

(***************************************************************************)
(* C10 as amended: a faulting fixed-width write leaves the buffer as it    *)
(* was; a faulting read leaves storage and writerIndex as they were but    *)
(* has advanced readerIndex by the width (by 4 for readByteString); a      *)
(* faulting writeByteString leaves readerIndex as it was and, when the     *)
(* length prefix fitted, has written the prefix and the characters that    *)
(* fit and left writerIndex at the end of the storage.                     *)
(***************************************************************************)
FaultEffects ==
    [][ (IsCall /\ fault')
            => /\ lastOp' \in FixedWrites
                  => /\ data' = data
                     /\ readerIndex' = readerIndex
                     /\ writerIndex' = writerIndex
               /\ lastOp' \in FixedReads
                  => /\ data' = data
                     /\ writerIndex' = writerIndex
                     /\ readerIndex' = readerIndex + Width(lastOp')
               /\ lastOp' = "readByteString"
                  => /\ data' = data
                     /\ writerIndex' = writerIndex
                     /\ readerIndex' = readerIndex + 4
               /\ lastOp' = "writeByteString"
                  => /\ readerIndex' = readerIndex
                     /\ Len(data') = Len(data)
                     /\ IF writerIndex < 0 \/ writerIndex + 4 > Len(data)
                        THEN data' = data /\ writerIndex' = writerIndex
                        ELSE /\ writerIndex' = Len(data)
                             /\ Len(data) - (writerIndex + 4) < Len(arg')
                             /\ \A i \in 1..Len(data) :
                                  data'[i] =
                                    IF i <= writerIndex THEN data[i]
                                    ELSE IF i <= writerIndex + 4
                                    THEN << 0, 0, 0, Len(arg') >>[i - writerIndex]
                                    ELSE arg'[i - writerIndex - 4] % 256
      ]_vars

FaultEffectsWitness ==
    /\ lastOp = "writeByteString"
    /\ fault
    /\ arg = <<65, 66>>
    /\ readerIndex = 0
    /\ Len(data) = MaxLen
    /\ writerIndex = Len(data)
    /\ SubSeq(data, Len(data) - 4, Len(data)) = <<0, 0, 0, 2, 65>>

====
